---------------------------- MODULE Spec2Model ----------------------------
(***************************************************************************)
(* A model of the Huffman codec of huffman-rs: the priority queue          *)
(* (src/src/queue.rs), the frequency table, the tree, the bit-packing      *)
(* writer and the bit-unpacking reader (src/src/coding.rs) and the encode  *)
(* and decode drivers (src/src/cli.rs).                                    *)
(*                                                                         *)
(* A u128 is modelled as the set of its set bit positions (a subset of     *)
(* 0..127), so that shifts, ors and truncations are exact without big      *)
(* integers.  A byte is a number in 0..255.  A Rust tuple is a TLA+ tuple  *)
(* with the same component order.  Rust's 0-based indices are kept in the  *)
(* operators that model index arithmetic; At0 reads a sequence 0-based.    *)
(*                                                                         *)
(* A HuffTree value lives in `heap`, the sequence of the nodes allocated   *)
(* so far, and is referred to by its index there: a Branch holds the       *)
(* indices of its two boxed children.  Nested(nodes, id) reads a tree back *)
(* as the nested value Branch(Branch(..), ..).                             *)
(***************************************************************************)
EXTENDS Integers, Sequences, FiniteSets, TLC

VARIABLES
    build,      \* "debug" (overflow checks panic) or "release" (they wrap)
    stdlib,     \* which slice::binary_search_by the toolchain ships
    pc,         \* position of the running driver; "panic_f": f panicked
    input,      \* the byte source: a sequence of read results
    freqs,      \* Frequencies.pairs built by count_bytes (or given)
    out,        \* bytes written to the encoder's sink (header, then body)
    heap,       \* the HuffTree nodes allocated by the running from_freqs
    data,       \* PriorityQueue.data
    popped,     \* the last value returned by remove / remove_two
    tree,       \* the HuffTree the encoder built: [root, nodes]
    trees,      \* the explicit stack of from_tree
    map,        \* HuffWriter.map
    eof,        \* HuffWriter.eof
    shift,      \* HuffWriter.shift
    scratch,    \* HuffWriter.scratch
    pos,        \* number of source bytes the encoder has written
    codebits,   \* history: the code bits of the symbols written so far, in call
                \* order, packed 8 to a byte; `rest` is the bits short of a byte
    rfreqs,     \* result of Frequencies::read
    top_tree,   \* HuffReader.top_tree: [root, nodes]
    cur,        \* HuffReader.tree: a node of top_tree
    rpos,       \* number of body bytes the decoder has fed
    decoded,    \* bytes written to the decoder's sink
    can_feed    \* the last value returned by feed

vars == <<build, stdlib, pc, input, freqs, out, heap, data, popped, tree, trees, map,
          eof, shift, scratch, pos, codebits, rfreqs, top_tree, cur, rpos,
          decoded, can_feed>>

---------------------------------------------------------------------------
(* Program constants *)

\* width of the scratch register, u128
ScratchBits == 128
\* number of slots of the count vector and of the code map
NumBytes == 256
\* the scaling factor of count_bytes
MaxWeight == 255

Bytes == 0 .. (NumBytes - 1)

None == [kind |-> "None"]
Some(x) == [kind |-> "Some", val |-> x]

At0(s, i) == s[i + 1]

RECURSIVE Pow2(_)
Pow2(n) == IF n = 0 THEN 1 ELSE 2 * Pow2(n - 1)

\* n copies of x
Rep(x, n) == [i \in 1 .. n |-> x]

---------------------------------------------------------------------------
(* HuffTree *)

Known(b) == [kind |-> "Known", byte |-> b]
EOF == [kind |-> "EOF"]
Branch(l, r) == [kind |-> "Branch", left |-> l, right |-> r]

\* the tree at node id as a nested value
RECURSIVE Nested(_, _)
Nested(nodes, id) ==
    IF nodes[id].kind = "Branch"
    THEN Branch(Nested(nodes, nodes[id].left), Nested(nodes, nodes[id].right))
    ELSE nodes[id]

---------------------------------------------------------------------------
(* PriorityQueue (queue.rs) *)

\* probe_k.cmp(key): the closure of a search for an ascending order
KeyCmpAscending(key, probe_k) ==
    IF probe_k < key THEN "Less" ELSE IF probe_k = key THEN "Equal" ELSE "Greater"

\* key.cmp(probe_k), the closure handed to binary_search_by
KeyCmp(key, probe_k) ==
    IF key < probe_k THEN "Less" ELSE IF key = probe_k THEN "Equal" ELSE "Greater"

\* slice::binary_search_by as shipped by Rust 1.25 - 1.51 and again since 1.82:
\* no early exit, the probe moves right on Less and on Equal.
RECURSIVE BranchlessLoop(_, _, _, _)
BranchlessLoop(s, key, base, size) ==
    IF size > 1
    THEN LET half == size \div 2
             mid == base + half
             cmp == KeyCmp(key, At0(s, mid)[1])
         IN BranchlessLoop(s, key, IF cmp = "Greater" THEN base ELSE mid, size - half)
    ELSE LET cmp == KeyCmp(key, At0(s, base)[1])
         IN IF cmp = "Equal" THEN base
            ELSE base + (IF cmp = "Less" THEN 1 ELSE 0)

\* slice::binary_search_by as shipped by Rust 1.52 - 1.81: returns at the first
\* probe that compares Equal.
RECURSIVE EarlyReturnLoop(_, _, _, _, _)
EarlyReturnLoop(s, key, left, right, size) ==
    IF left < right
    THEN LET mid == left + size \div 2
             cmp == KeyCmp(key, At0(s, mid)[1])
         IN IF cmp = "Less" THEN EarlyReturnLoop(s, key, mid + 1, right, right - (mid + 1))
            ELSE IF cmp = "Greater" THEN EarlyReturnLoop(s, key, left, mid, mid - left)
            ELSE mid
    ELSE left

\* a search whose choice among equal keys is not the same in the two runs
SearchByRun(s, key, lib) ==
    IF pc \in {"enc_seed", "enc_merge"}
    THEN (IF Len(s) = 0 THEN 0 ELSE BranchlessLoop(s, key, 0, Len(s)))
    ELSE EarlyReturnLoop(s, key, 0, Len(s), Len(s))

\* The index insert uses: Ok(i) and Err(i) both give i.
binary_search_by(s, key, lib) ==
    IF lib = "branchless"
    THEN (IF Len(s) = 0 THEN 0 ELSE BranchlessLoop(s, key, 0, Len(s)))
    ELSE EarlyReturnLoop(s, key, 0, Len(s), Len(s))

\* Vec::insert(index, element)
VecInsert(s, index, e) ==
    SubSeq(s, 1, index) \o <<e>> \o SubSeq(s, index + 1, Len(s))

insert(q, key, value, lib) ==
    VecInsert(q, binary_search_by(q, key, lib), <<key, value>>)

\* remove: Vec::pop; the pair of the returned option and the queue left
remove(q) ==
    IF Len(q) = 0
    THEN [ret |-> None, q |-> q]
    ELSE [ret |-> Some(q[Len(q)]), q |-> SubSeq(q, 1, Len(q) - 1)]

\* a remove_two that returns the second entry without taking it out
RemoveTwoPeek(q) ==
    IF Len(q) < 2
    THEN [ret |-> None, q |-> q]
    ELSE LET a == remove(q)
             b == remove(a.q)
         IN [ret |-> Some(<<a.ret.val, b.ret.val>>), q |-> a.q]

remove_two(q) ==
    IF Len(q) < 2
    THEN [ret |-> None, q |-> q]
    ELSE LET a == remove(q)
             b == remove(a.q)
         IN [ret |-> Some(<<a.ret.val, b.ret.val>>), q |-> b.q]

\* from_data: the queue takes the vector as it is
from_data(pairs) == pairs

---------------------------------------------------------------------------
(* HuffTree::from_freqs (coding.rs) *)

\* the queue from_freqs starts its loop with, lines 122-126: a Known leaf per
\* pair, in the table's order, and the sentinel inserted with weight 0
SeedQueue(pairs, lib) ==
    [heap |-> [i \in 1 .. Len(pairs) + 1 |->
                 IF i <= Len(pairs) THEN Known(pairs[i][2]) ELSE EOF],
     q |-> insert(from_data([i \in 1 .. Len(pairs) |-> <<pairs[i][1], i>>]),
                  0, Len(pairs) + 1, lib)]

\* a merge that boxes the second tree removed on the left
MergeStepSwapped(r, h, lib) ==
    LET a == r.ret.val[1]
        b == r.ret.val[2]
    IN [heap |-> Append(h, Branch(b[2], a[2])),
        q |-> insert(r.q, a[1] + b[1], Len(h) + 1, lib)]

\* the body of the while-let loop, lines 128-129, given what remove_two
\* returned: the two trees are boxed under a new Branch
MergeStep(r, h, lib) ==
    LET a == r.ret.val[1]
        b == r.ret.val[2]
    IN [heap |-> Append(h, Branch(a[2], b[2])),
        q |-> insert(r.q, a[1] + b[1], Len(h) + 1, lib)]

---------------------------------------------------------------------------
(* Frequencies (coding.rs) *)

\* pairs.sort_by(|(count1, _), (count2, _)| count1.cmp(count2)): the stable
\* sort in ascending order of count
SortByCountAsc(p) ==
    LET before(i) == {j \in 1 .. Len(p) :
                        \/ p[j][1] < p[i][1]
                        \/ (p[j][1] = p[i][1] /\ j < i)}
    IN [k \in 1 .. Len(p) |->
          p[CHOOSE i \in 1 .. Len(p) : Cardinality(before(i)) = k - 1]]

\* pairs.sort_by(|(count1, _), (count2, _)| count2.cmp(count1)): a stable sort,
\* descending by count.  The place of element i is the number of elements that
\* a stable descending sort puts before it.
SortByCountDesc(p) ==
    LET before(i) == {j \in 1 .. Len(p) :
                        \/ p[j][1] > p[i][1]
                        \/ (p[j][1] = p[i][1] /\ j < i)}
    IN [k \in 1 .. Len(p) |->
          p[CHOOSE i \in 1 .. Len(p) : Cardinality(before(i)) = k - 1]]

\* count_bytes pushing (count as u8, byte), the count not scaled
CountBytesUnscaled(src) ==
    IF src.err
    THEN [kind |-> "Err"]
    ELSE LET acc == [b \in Bytes |->
                       Cardinality({i \in 1 .. Len(src.bytes) : src.bytes[i] = b})]
             present == {b \in Bytes : acc[b] # 0}
             nth(k) == CHOOSE b \in present :
                          Cardinality({c \in present : c < b}) = k - 1
             pushed == [k \in 1 .. Cardinality(present) |->
                          <<acc[nth(k)] % NumBytes, nth(k)>>]
         IN [kind |-> "Ok", pairs |-> SortByCountDesc(pushed)]

\* count_bytes over a source that yields src.bytes and then, when src.err, a
\* read error.  The division is evaluated only for the slots with count # 0,
\* as in the loop of lines 54-59.
count_bytes(src) ==
    IF src.err
    THEN [kind |-> "Err"]
    ELSE LET acc == [b \in Bytes |->
                       Cardinality({i \in 1 .. Len(src.bytes) : src.bytes[i] = b})]
             max == CHOOSE m \in {acc[b] : b \in Bytes} : \A b \in Bytes : acc[b] <= m
             present == {b \in Bytes : acc[b] # 0}
             nth(k) == CHOOSE b \in present :
                          Cardinality({c \in present : c < b}) = k - 1
             pushed == [k \in 1 .. Cardinality(present) |->
                          <<((acc[nth(k)] * MaxWeight) \div max) % NumBytes, nth(k)>>]
         IN [kind |-> "Ok", pairs |-> SortByCountDesc(pushed)]

\* the 4 count bytes, most significant first (lines 69-74)
CountBytesBE(len) ==
    <<(len \div Pow2(24)) % NumBytes, (len \div Pow2(16)) % NumBytes,
      (len \div Pow2(8)) % NumBytes, len % NumBytes>>

\* Frequencies::write: the bytes it writes to the sink
FreqWrite(pairs) ==
    CountBytesBE(Len(pairs)) \o
    [i \in 1 .. 2 * Len(pairs) |->
        IF i % 2 = 1 THEN pairs[(i + 1) \div 2][2] ELSE pairs[i \div 2][1]]

\* Frequencies::read on a source holding `bytes`: read_exact fails on a short
\* source; with num = 0, pair_buf.len() - 1 underflows: the debug build panics
\* on the subtraction, the release build wraps it to usize::MAX, enters the
\* loop and panics on pair_buf[1].  pair_buf has num * 2 bytes (a usize, no
\* overflow): the comparisons below are written on num so that the product
\* is only formed when the source holds that many bytes.
FreqRead(bytes) ==
    IF Len(bytes) < 4
    THEN [kind |-> "IoErr"]
    ELSE LET num == ((bytes[1] * NumBytes + bytes[2]) * NumBytes + bytes[3])
                       * NumBytes + bytes[4]
         IN IF (Len(bytes) - 4) \div 2 < num
            THEN [kind |-> "IoErr"]
            ELSE IF num = 0
            THEN [kind |-> "Panic"]
            ELSE [kind |-> "Ok",
                  pairs |-> [k \in 1 .. num |->
                               <<bytes[4 + 2 * k], bytes[4 + 2 * k - 1]>>],
                  used |-> 4 + num * 2]

---------------------------------------------------------------------------
(* u128 arithmetic on sets of bit positions *)

\* x << s for s < 128: bits shifted past the width are lost
Shl(x, s) == {i + s : i \in x} \cap (0 .. (ScratchBits - 1))

\* x >> s for s < 128
Shr(x, s) == {i - s : i \in {j \in x : j >= s}}

\* the shift amount a release build uses: the amount masked to the width
Masked(s) == ((s % ScratchBits) + ScratchBits) % ScratchBits

\* (num >> (8 * k)) as u8
ByteAt(num, k) ==
    LET bit(j) == IF (8 * k + j) \in num THEN Pow2(j) ELSE 0
    IN bit(0) + bit(1) + bit(2) + bit(3) + bit(4) + bit(5) + bit(6) + bit(7)

\* a write_u128_trimmed without the early return, rounding significant / 8 up
\* by adding 1
WriteTrimmedNoEarlyReturn(num, significant) ==
    LET num_bytes == significant \div 8 + 1
    IN IF num_bytes > ScratchBits \div 8
       THEN [panic |-> TRUE, bytes |-> <<>>]
       ELSE [panic |-> FALSE,
             bytes |-> [k \in 1 .. num_bytes |-> ByteAt(num, k - 1)]]

\* write_u128_trimmed: the bytes written, or a panic when the slice
\* bytes[..num_bytes] is longer than the 16-byte buffer
write_u128_trimmed(num, significant) ==
    IF significant = 0
    THEN [panic |-> FALSE, bytes |-> <<>>]
    ELSE LET num_bytes == (significant - 1) \div 8 + 1
         IN IF num_bytes > ScratchBits \div 8
            THEN [panic |-> TRUE, bytes |-> <<>>]
            ELSE [panic |-> FALSE,
                  bytes |-> [k \in 1 .. num_bytes |-> ByteAt(num, k - 1)]]

write_u128(num) == write_u128_trimmed(num, ScratchBits)

---------------------------------------------------------------------------
(* HuffWriter (coding.rs) *)

\* a traversal that pushes the left child with the parent's shift
FromTreeStepLeftFlat(st, m, e, nodes, bld) ==
    LET top == st[Len(st)]
        rest == SubSeq(st, 1, Len(st) - 1)
        t == nodes[top[1]]
        bits == top[2]
        sh == top[3]
    IN CASE t.kind = "Branch" ->
              IF sh >= ScratchBits /\ bld = "debug"
              THEN [panic |-> TRUE, trees |-> rest, map |-> m, eof |-> e]
              ELSE [panic |-> FALSE,
                    trees |-> rest \o << <<t.left, bits, sh>>,
                                         <<t.right, {Masked(sh)} \cup bits, sh + 1>> >>,
                    map |-> m, eof |-> e]
         [] t.kind = "EOF" ->
              [panic |-> FALSE, trees |-> rest, map |-> m, eof |-> <<bits, sh>>]
         [] t.kind = "Known" ->
              [panic |-> FALSE, trees |-> rest,
               map |-> [m EXCEPT ![t.byte] = <<bits, sh>>], eof |-> e]

\* one iteration of the while-let loop of from_tree on the stack `st`:
\* 1 << shift overflows for shift >= 128 (debug: panic, release: masked)
FromTreeStep(st, m, e, nodes, bld) ==
    LET top == st[Len(st)]
        rest == SubSeq(st, 1, Len(st) - 1)
        t == nodes[top[1]]
        bits == top[2]
        sh == top[3]
    IN CASE t.kind = "Branch" ->
              IF sh >= ScratchBits /\ bld = "debug"
              THEN [panic |-> TRUE, trees |-> rest, map |-> m, eof |-> e]
              ELSE [panic |-> FALSE,
                    trees |-> rest \o << <<t.left, bits, sh + 1>>,
                                         <<t.right, {Masked(sh)} \cup bits, sh + 1>> >>,
                    map |-> m, eof |-> e]
         [] t.kind = "EOF" ->
              [panic |-> FALSE, trees |-> rest, map |-> m, eof |-> <<bits, sh>>]
         [] t.kind = "Known" ->
              [panic |-> FALSE, trees |-> rest,
               map |-> [m EXCEPT ![t.byte] = <<bits, sh>>], eof |-> e]

\* a write_bits that keeps bits >> self.shift after a flush
WriteBitsWrongCarry(scr, sh, bits, bit_size, bld) ==
    IF sh >= ScratchBits /\ bld = "debug"
    THEN [panic |-> TRUE, scratch |-> scr, shift |-> sh, bytes |-> <<>>]
    ELSE LET scr1 == scr \cup Shl(bits, Masked(sh))
             sh1 == sh + bit_size
         IN IF sh1 >= ScratchBits
            THEN LET sh2 == sh1 - ScratchBits
                 IN [panic |-> FALSE, scratch |-> Shr(bits, Masked(sh2)),
                     shift |-> sh2, bytes |-> write_u128(scr1).bytes]
            ELSE [panic |-> FALSE, scratch |-> scr1, shift |-> sh1, bytes |-> <<>>]

\* write_bits on a writer with (scratch, shift) = (scr, sh)
write_bits(scr, sh, bits, bit_size, bld) ==
    IF sh >= ScratchBits /\ bld = "debug"
    THEN [panic |-> TRUE, scratch |-> scr, shift |-> sh, bytes |-> <<>>]
    ELSE LET scr1 == scr \cup Shl(bits, Masked(sh))
             sh1 == sh + bit_size
         IN IF sh1 >= ScratchBits
            THEN LET sh2 == sh1 - ScratchBits
                     amount == bit_size - sh2
                 IN IF bld = "debug" /\ (amount < 0 \/ amount >= ScratchBits)
                    THEN [panic |-> TRUE, scratch |-> scr1, shift |-> sh2,
                          bytes |-> <<>>]
                    ELSE [panic |-> FALSE, scratch |-> Shr(bits, Masked(amount)),
                          shift |-> sh2, bytes |-> write_u128(scr1).bytes]
            ELSE [panic |-> FALSE, scratch |-> scr1, shift |-> sh1, bytes |-> <<>>]

\* the bits of a (bits, bit_size) code in the order they are sent, bit 0 first
CodeBits(code) == [i \in 1 .. code[2] |-> IF (i - 1) \in code[1] THEN 1 ELSE 0]

CeilDiv(a, b) == (a + b - 1) \div b

\* the reference packer: 8 bits per byte, least significant bit first, the
\* unused high bits of the last byte zero
Pack(bits) ==
    [k \in 1 .. CeilDiv(Len(bits), 8) |->
        LET bit(j) == IF 8 * (k - 1) + j + 1 <= Len(bits)
                      THEN bits[8 * (k - 1) + j + 1] * Pow2(j)
                      ELSE 0
        IN bit(0) + bit(1) + bit(2) + bit(3) + bit(4) + bit(5) + bit(6) + bit(7)]

\* the history of code bits `cb` after one more code
Sent(cb, code) ==
    LET all == cb.rest \o CodeBits(code)
        whole == Len(all) \div 8
    IN [packed |-> cb.packed \o SubSeq(Pack(all), 1, whole),
        rest |-> SubSeq(all, 8 * whole + 1, Len(all))]

\* the number of code bits sent, and their reference packing
SentLen == 8 * Len(codebits.packed) + Len(codebits.rest)
SentPacked == codebits.packed \o Pack(codebits.rest)

---------------------------------------------------------------------------
(* HuffReader (coding.rs) *)

\* the loop of feed from its i-th iteration on a reader standing at node t of
\* the tree `top`, `w` being the bytes written so far
RECURSIVE FeedLoop(_, _, _, _, _)
FeedLoop(t, top, byte, i, w) ==
    IF i < 8
    THEN LET n == top.nodes[t]
         IN CASE n.kind = "Branch" ->
                   FeedLoop(IF byte % 2 = 0 THEN n.left ELSE n.right, top,
                            byte \div 2, i + 1, w)
              [] n.kind = "Known" -> FeedLoop(top.root, top, byte, i, Append(w, n.byte))
              [] n.kind = "EOF" -> [tree |-> t, written |-> w, ret |-> FALSE]
    ELSE [tree |-> t, written |-> w, ret |-> TRUE]

\* a feed whose loop counts an iteration for a leaf as it does for a bit
RECURSIVE FeedLoopCounting(_, _, _, _, _)
FeedLoopCounting(t, top, byte, i, w) ==
    IF i < 8
    THEN LET n == top.nodes[t]
         IN CASE n.kind = "Branch" ->
                   FeedLoopCounting(IF byte % 2 = 0 THEN n.left ELSE n.right, top,
                                    byte \div 2, i + 1, w)
              [] n.kind = "Known" ->
                   FeedLoopCounting(top.root, top, byte, i + 1, Append(w, n.byte))
              [] n.kind = "EOF" -> [tree |-> t, written |-> w, ret |-> FALSE]
    ELSE [tree |-> t, written |-> w, ret |-> TRUE]

FeedCounting(t, top, byte) == FeedLoopCounting(t, top, byte, 0, <<>>)

feed(t, top, byte) == FeedLoop(t, top, byte, 0, <<>>)

---------------------------------------------------------------------------
(* Bounds and inputs *)

\* longest source whose bytes are enumerated in full
MaxLen == 4
\* longest run of one byte value, and how many shorter runs are tried: the
\* runs take the writer up to and across the first 128-bit block
RunMax == 128
RunSpan == 3
\* longest tail following a run
TailLen == 2
\* most pairs of an enumerated table, and most entries of a free-standing queue
MaxPairs == 3
MaxQueue == 4
\* largest key of a free-standing queue
MaxKey == 2
\* longest byte sequence handed to Frequencies::read as it is
MaxRaw == 6

Alphabet == {69, 70, 71}
Builds == {"debug", "release"}
Stdlibs == {"branchless", "early_return"}

SeqsUpTo(S, n) == UNION {[1 .. k -> S] : k \in 0 .. n}

ShortSources ==
    {[bytes |-> s, err |-> e] : s \in SeqsUpTo(Alphabet, MaxLen), e \in BOOLEAN}

RunSources ==
    {[bytes |-> Rep(69, n) \o t, err |-> FALSE] :
        n \in (RunMax - RunSpan) .. RunMax, t \in SeqsUpTo(Alphabet, TailLen)}

\* One byte value so frequent that every other one scales to weight 0, and as
\* many other byte values as the scratch register has bits.
DeepSource ==
    [bytes |-> [i \in 1 .. (ScratchBits - 1) |-> ScratchBits - i]
                 \o Rep(0, NumBytes + ScratchBits \div 2)
                 \o <<ScratchBits>>,
     err |-> FALSE]

Sources == ShortSources \cup RunSources \cup {DeepSource}

EmptyMap == [b \in Bytes |-> <<{}, 0>>]

\* no tree yet
NoTree == [root |-> 0, nodes |-> <<>>]

\* every variable but build, stdlib, pc, input, freqs, out and data
Blank ==
    /\ heap = <<>>
    /\ popped = None
    /\ tree = NoTree
    /\ trees = <<>>
    /\ map = EmptyMap
    /\ eof = <<{}, 0>>
    /\ shift = 0
    /\ scratch = {}
    /\ pos = 0
    /\ codebits = [packed |-> <<>>, rest |-> <<>>]
    /\ rfreqs = None
    /\ top_tree = NoTree
    /\ cur = 0
    /\ rpos = 0
    /\ decoded = <<>>
    /\ can_feed = TRUE

---------------------------------------------------------------------------
(* cli.rs: encode *)

Init ==
    /\ build \in Builds
    /\ stdlib \in Stdlibs
    /\ pc = "enc_count"
    /\ input \in Sources
    /\ freqs = <<>>
    /\ out = <<>>
    /\ data = <<>>
    /\ Blank

\* line 48: Frequencies::count_bytes(input_copy.bytes())?
CountBytes ==
    /\ pc = "enc_count"
    /\ LET r == count_bytes(input)
       IN IF r.kind = "Err"
          THEN pc' = "io_error" /\ UNCHANGED freqs
          ELSE pc' = "enc_header" /\ freqs' = r.pairs
    /\ UNCHANGED <<build, stdlib, input, out, heap, data, popped, tree, trees, map, eof,
                   shift, scratch, pos, codebits, rfreqs, top_tree, cur, rpos,
                   decoded, can_feed>>

\* Frequencies::write appends its bytes to the sink and control goes to `next`
WriteFreqs(next) ==
    /\ out' = out \o FreqWrite(freqs)
    /\ pc' = next
    /\ UNCHANGED <<build, stdlib, input, freqs, heap, data, popped, tree, trees, map,
                   eof, shift, scratch, pos, codebits, rfreqs, top_tree, cur,
                   rpos, decoded, can_feed>>

\* line 49: freqs.write(&mut output_writer)?
EncWriteFreqs ==
    /\ pc = "enc_header"
    /\ WriteFreqs("enc_seed")

\* from_freqs, lines 122-126: the queue is seeded; the table is the encoder's
\* or the one the decoder read
Seed ==
    /\ pc \in {"enc_seed", "dec_seed"}
    /\ LET r == SeedQueue(IF pc = "enc_seed" THEN freqs ELSE rfreqs.pairs, stdlib)
       IN heap' = r.heap /\ data' = r.q
    /\ pc' = IF pc = "enc_seed" THEN "enc_merge" ELSE "dec_merge"
    /\ UNCHANGED <<build, stdlib, input, freqs, out, popped, tree, trees, map, eof,
                   shift, scratch, pos, codebits, rfreqs, top_tree, cur, rpos,
                   decoded, can_feed>>

\* from_freqs, lines 127-130: one iteration of the merge loop
Merge ==
    /\ pc \in {"enc_merge", "dec_merge"}
    /\ LET r == remove_two(data)
       IN /\ r.ret.kind = "Some"
          /\ popped' = r.ret
          /\ heap' = MergeStep(r, heap, stdlib).heap
          /\ data' = MergeStep(r, heap, stdlib).q
    /\ UNCHANGED <<build, stdlib, pc, input, freqs, out, tree, trees, map, eof,
                   shift, scratch, pos, codebits, rfreqs, top_tree, cur, rpos,
                   decoded, can_feed>>

\* from_freqs, lines 127 and 132: remove_two gives None, the loop ends and
\* q.remove().unwrap().1 is the tree (unwrap panics on None): the nodes
\* allocated belong to it.  The encoder keeps it for from_tree; the decoder
\* hands it to HuffReader::new (cli.rs 68).
Root ==
    /\ pc \in {"enc_merge", "dec_merge"}
    /\ remove_two(data).ret.kind = "None"
    /\ LET r == remove(data)
       IN /\ popped' = r.ret
          /\ data' = r.q
          /\ IF r.ret.kind = "None"
             THEN pc' = "panic_from_freqs" /\ UNCHANGED <<heap, tree, top_tree, cur>>
             ELSE IF pc = "enc_merge"
             THEN pc' = "enc_writer"
                  /\ tree' = [root |-> r.ret.val[2], nodes |-> heap]
                  /\ heap' = <<>>
                  /\ UNCHANGED <<top_tree, cur>>
             ELSE pc' = "dec_feed"
                  /\ top_tree' = [root |-> r.ret.val[2], nodes |-> heap]
                  /\ heap' = <<>>
                  /\ cur' = r.ret.val[2] /\ UNCHANGED tree
    /\ UNCHANGED <<build, stdlib, input, freqs, out, trees, map, eof, shift,
                   scratch, pos, codebits, rfreqs, rpos, decoded, can_feed>>

\* from_tree, lines 148-152: the stack holds the root, the map is zeroed
NewWriter ==
    /\ pc = "enc_writer"
    /\ trees' = << <<tree.root, {}, 0>> >>
    /\ map' = EmptyMap
    /\ eof' = <<{}, 0>>
    /\ pc' = "enc_pop"
    /\ UNCHANGED <<build, stdlib, input, freqs, out, heap, data, popped, tree, shift,
                   scratch, pos, codebits, rfreqs, top_tree, cur, rpos, decoded,
                   can_feed>>

\* from_tree, lines 153-162: one iteration of the traversal
Pop ==
    /\ pc = "enc_pop"
    /\ trees # <<>>
    /\ LET r == FromTreeStep(trees, map, eof, tree.nodes, build)
       IN /\ trees' = r.trees
          /\ map' = r.map
          /\ eof' = r.eof
          /\ pc' = IF r.panic THEN "panic_from_tree" ELSE pc
    /\ UNCHANGED <<build, stdlib, input, freqs, out, heap, data, popped, tree, shift,
                   scratch, pos, codebits, rfreqs, top_tree, cur, rpos, decoded,
                   can_feed>>

\* from_tree, line 163, then cli.rs line 53: the writer is built, the source
\* is read again from its start
WriterReady ==
    /\ pc = "enc_pop"
    /\ trees = <<>>
    /\ shift' = 0
    /\ scratch' = {}
    /\ pos' = 0
    /\ pc' = "enc_write"
    /\ UNCHANGED <<build, stdlib, input, freqs, out, heap, data, popped, tree, trees, map,
                   eof, codebits, rfreqs, top_tree, cur, rpos, decoded, can_feed>>

\* cli.rs lines 54-57: write_byte on the next byte of the source
WriteByte ==
    /\ pc = "enc_write"
    /\ pos < Len(input.bytes)
    /\ LET code == map[input.bytes[pos + 1]]
           r == write_bits(scratch, shift, code[1], code[2], build)
       IN /\ scratch' = r.scratch
          /\ shift' = r.shift
          /\ out' = out \o r.bytes
          /\ codebits' = Sent(codebits, code)
          /\ IF r.panic
             THEN pc' = "panic_write_byte" /\ UNCHANGED pos
             ELSE pc' = pc /\ pos' = pos + 1
    /\ UNCHANGED <<build, stdlib, input, freqs, heap, data, popped, tree, trees, map, eof,
                   rfreqs, top_tree, cur, rpos, decoded, can_feed>>

\* cli.rs line 58: end_transmission writes the sentinel's code and then the
\* bits left in scratch, trimmed to whole bytes
EndTransmission ==
    /\ pc = "enc_write"
    /\ pos = Len(input.bytes)
    /\ LET r == write_bits(scratch, shift, eof[1], eof[2], build)
           t == write_u128_trimmed(r.scratch, r.shift)
       IN /\ scratch' = r.scratch
          /\ shift' = r.shift
          /\ codebits' = Sent(codebits, eof)
          /\ IF r.panic
             THEN pc' = "panic_end_transmission" /\ out' = out
             ELSE IF t.panic
             THEN pc' = "panic_end_transmission" /\ out' = out \o r.bytes
             ELSE pc' = "encoded" /\ out' = out \o r.bytes \o t.bytes
    /\ UNCHANGED <<build, stdlib, input, freqs, heap, data, popped, tree, trees, map, eof,
                   pos, rfreqs, top_tree, cur, rpos, decoded, can_feed>>

---------------------------------------------------------------------------
(* cli.rs: decode, run on the file encode produced *)

StartDecode ==
    /\ pc = "encoded"
    /\ pc' = "dec_read"
    /\ UNCHANGED <<build, stdlib, input, freqs, out, heap, data, popped, tree, trees, map,
                   eof, shift, scratch, pos, codebits, rfreqs, top_tree, cur,
                   rpos, decoded, can_feed>>

\* line 66: Frequencies::read(&mut input_file)?; the file is left positioned
\* after the header
ReadFreqs ==
    /\ pc = "dec_read"
    /\ LET r == FreqRead(out)
       IN /\ rfreqs' = r
          /\ pc' = CASE r.kind = "Ok" -> "dec_seed"
                     [] r.kind = "IoErr" -> "io_error"
                     [] r.kind = "Panic" -> "panic_read"
          /\ rpos' = IF r.kind = "Ok" THEN r.used ELSE rpos
    /\ UNCHANGED <<build, stdlib, input, freqs, out, heap, data, popped, tree, trees, map,
                   eof, shift, scratch, pos, codebits, top_tree, cur, decoded,
                   can_feed>>

\* lines 70-76: the next byte of the file is fed; the loop breaks when feed
\* returns false
Feed ==
    /\ pc = "dec_feed"
    /\ rpos < Len(out)
    /\ LET r == feed(cur, top_tree, out[rpos + 1])
       IN /\ cur' = r.tree
          /\ decoded' = decoded \o r.written
          /\ can_feed' = r.ret
          /\ pc' = IF r.ret THEN pc ELSE "done"
    /\ rpos' = rpos + 1
    /\ UNCHANGED <<build, stdlib, input, freqs, out, heap, data, popped, tree, trees, map,
                   eof, shift, scratch, pos, codebits, rfreqs, top_tree>>

\* lines 70 and 77: the file is exhausted, decode returns Ok
DecodeEnd ==
    /\ pc = "dec_feed"
    /\ rpos = Len(out)
    /\ pc' = "done"
    /\ UNCHANGED <<build, stdlib, input, freqs, out, heap, data, popped, tree, trees, map,
                   eof, shift, scratch, pos, codebits, rfreqs, top_tree, cur,
                   rpos, decoded, can_feed>>

Next ==
    \/ CountBytes
    \/ EncWriteFreqs
    \/ Seed
    \/ Merge
    \/ Root
    \/ NewWriter
    \/ Pop
    \/ WriterReady
    \/ WriteByte
    \/ EndTransmission
    \/ StartDecode
    \/ ReadFreqs
    \/ Feed
    \/ DecodeEnd

Spec == Init /\ [][Next]_vars

---------------------------------------------------------------------------
(* The priority queue on its own: any sequence of calls on PriorityQueue::new() *)

Keys == 0 .. MaxKey
Values == {"x", "y"}

InitQueue ==
    /\ build \in Builds
    /\ stdlib \in Stdlibs
    /\ pc = "q_new"
    /\ input = [bytes |-> <<>>, err |-> FALSE]
    /\ freqs = <<>>
    /\ out = <<>>
    /\ data = <<>>
    /\ Blank

QueueFrame ==
    UNCHANGED <<build, stdlib, input, freqs, out, heap, tree, trees, map, eof, shift,
                scratch, pos, codebits, rfreqs, top_tree, cur, rpos, decoded,
                can_feed>>

QInsert ==
    /\ pc \in {"q_new", "q_insert", "q_remove", "q_remove_two"}
    /\ Len(data) < MaxQueue
    /\ \E k \in Keys, v \in Values : data' = insert(data, k, v, stdlib)
    /\ popped' = None
    /\ pc' = "q_insert"
    /\ QueueFrame

QRemove ==
    /\ pc \in {"q_new", "q_insert", "q_remove", "q_remove_two"}
    /\ LET r == remove(data)
       IN popped' = r.ret /\ data' = r.q
    /\ pc' = "q_remove"
    /\ QueueFrame

QRemoveTwo ==
    /\ pc \in {"q_new", "q_insert", "q_remove", "q_remove_two"}
    /\ LET r == remove_two(data)
       IN popped' = r.ret /\ data' = r.q
    /\ pc' = "q_remove_two"
    /\ QueueFrame

NextQueue == QInsert \/ QRemove \/ QRemoveTwo

SpecQueue == InitQueue /\ [][NextQueue]_vars

---------------------------------------------------------------------------
(* The table's serialisation on its own: write, then read what was written *)

Weights == {0, 1, MaxWeight}

Tables(S, n) == SeqsUpTo(Weights \X S, n)

InitHeader ==
    /\ build \in Builds
    /\ stdlib \in Stdlibs
    /\ pc = "hdr_write"
    /\ input = [bytes |-> <<>>, err |-> FALSE]
    /\ freqs \in Tables(Alphabet, MaxPairs)
    /\ out = <<>>
    /\ data = <<>>
    /\ Blank

HdrWrite ==
    /\ pc = "hdr_write"
    /\ WriteFreqs("dec_read")

NextHeader == HdrWrite \/ ReadFreqs

SpecHeader == InitHeader /\ [][NextHeader]_vars

---------------------------------------------------------------------------
(* Frequencies::read on any byte sequence, well-formed or not *)

RawBytes == {0, 1, 69}

InitRead ==
    /\ build \in Builds
    /\ stdlib \in Stdlibs
    /\ pc = "dec_read"
    /\ input = [bytes |-> <<>>, err |-> FALSE]
    /\ freqs = <<>>
    /\ out \in SeqsUpTo(RawBytes, MaxRaw)
    /\ data = <<>>
    /\ Blank

NextRead == ReadFreqs

SpecRead == InitRead /\ [][NextRead]_vars

---------------------------------------------------------------------------
(* from_freqs and from_tree on any table, not only those count_bytes builds *)

\* the tables of the unit test (coding.rs 241-244) and of the worked scenario
TestTable == << <<100, 69>>, <<2, 71>>, <<1, 70>> >>
ScenarioTable == << <<MaxWeight, 69>>, <<5, 71>>, <<2, 70>> >>
\* the table count_bytes builds for DeepSource
DeepTable == << <<MaxWeight, 0>> >> \o [i \in 1 .. ScratchBits |-> <<0, i>>]

InitTree ==
    /\ build \in Builds
    /\ stdlib \in Stdlibs
    /\ pc = "enc_seed"
    /\ input = [bytes |-> <<>>, err |-> FALSE]
    /\ freqs \in Tables(Alphabet, MaxPairs) \cup {TestTable, ScenarioTable, DeepTable}
    /\ out = <<>>
    /\ data = <<>>
    /\ Blank

NextTree == Seed \/ Merge \/ Root \/ NewWriter \/ Pop \/ WriterReady

SpecTree == InitTree /\ [][NextTree]_vars

---------------------------------------------------------------------------
(* from_freqs called twice on one table: the first tree is kept in `tree`,  *)
(* the second is built as the decoder builds its own                        *)

Again ==
    /\ pc = "enc_writer"
    /\ rfreqs' = [kind |-> "Ok", pairs |-> freqs, used |-> 0]
    /\ pc' = "dec_seed"
    /\ UNCHANGED <<build, stdlib, input, freqs, out, heap, data, popped, tree, trees,
                   map, eof, shift, scratch, pos, codebits, top_tree, cur, rpos,
                   decoded, can_feed>>

NextTwice == Seed \/ Merge \/ Root \/ Again

SpecTwice == InitTree /\ [][NextTwice]_vars

---------------------------------------------------------------------------
(* What the claims are stated with *)

Panicked ==
    pc \in {"panic_from_freqs", "panic_from_tree", "panic_write_byte",
            "panic_end_transmission", "panic_read"}

\* the run has ended, one way or another
Terminal == pc = "done" \/ pc = "io_error" \/ Panicked

\* a source encode can be asked to round-trip: it has bytes and reads well
GoodSource == input.bytes # <<>> /\ ~input.err

\* end_transmission has returned Ok
Encoded == pc \in {"encoded", "dec_read", "dec_seed", "dec_merge", "dec_feed", "done"}

\* the body of the file: what follows the header Frequencies::write wrote
HeaderLen == 4 + 2 * Len(freqs)
Body == SubSeq(out, HeaderLen + 1, Len(out))

IsPrefix(c, d) == Len(c) <= Len(d) /\ SubSeq(d, 1, Len(c)) = c

\* the node of tree t reached from node id by the bits of c, from the i-th
\* on, 0 left and 1 right; None when the walk leaves the tree
RECURSIVE Walk(_, _, _, _)
Walk(t, id, c, i) ==
    IF i > Len(c) THEN t.nodes[id]
    ELSE IF t.nodes[id].kind # "Branch" THEN None
    ELSE Walk(t, IF c[i] = 0 THEN t.nodes[id].left ELSE t.nodes[id].right, c, i + 1)

TableBytes == {freqs[i][2] : i \in DOMAIN freqs}

SortedDesc(q) == \A i \in 1 .. (Len(q) - 1) : q[i][1] >= q[i + 1][1]

MinKey(q) == CHOOSE k \in {q[i][1] : i \in DOMAIN q} : \A i \in DOMAIN q : k <= q[i][1]

\* q without its entries at the positions in D
Without(q, D) ==
    LET keep == {i \in DOMAIN q : i \notin D}
        nth(k) == CHOOSE i \in keep : Cardinality({j \in keep : j < i}) = k - 1
    IN [k \in 1 .. Cardinality(keep) |-> q[nth(k)]]

---------------------------------------------------------------------------
(* Claims *)

\* C1: round trip.  For every source that has bytes and reads without error,
\* encode followed by decode of the file it wrote ends normally and the decoder
\* has written exactly the source's bytes.
C1_RoundTrip ==
    (GoodSource /\ Terminal) => (pc = "done" /\ decoded = input.bytes)

\* C2: sentinel termination.  When decode has ended on the file encode wrote,
\* the last feed call returned false, the reader stands on the end-of-stream
\* leaf and every byte of the source has been written.
C2_SentinelStop ==
    (GoodSource /\ pc = "done") =>
        (can_feed = FALSE /\ top_tree.nodes[cur] = EOF /\ decoded = input.bytes)

\* C3: Frequencies round trip.  For every table, zero pairs included, read on
\* the bytes write produced succeeds and returns the same pairs in the same
\* order.
C3_FreqRoundTrip ==
    (pc \notin {"hdr_write", "dec_read"}) =>
        (rfreqs.kind = "Ok" /\ rfreqs.pairs = freqs)

\* C4: prefix-freeness.  from_tree ends without a panic on the tree of any
\* table, and then no symbol's code is a prefix of another symbol's code and
\* walking the tree by a symbol's code ends at that symbol's leaf.
C4_PrefixFree ==
    /\ pc # "panic_from_tree"
    /\ pc = "enc_write" =>
         LET code(sym) == CodeBits(IF sym = EOF THEN eof ELSE map[sym.byte])
             syms == {EOF} \cup {Known(b) : b \in TableBytes}
         IN /\ \A x \in syms : Walk(tree, tree.root, code(x), 1) = x
            /\ \A x, y \in syms : x # y => ~IsPrefix(code(x), code(y))

\* C5: no code is longer than the scratch register is wide: every bit_size
\* from_tree records, for a byte or for the sentinel, is at most 128.
C5_CodeLength ==
    /\ \A b \in Bytes : map[b][2] <= ScratchBits
    /\ eof[2] <= ScratchBits

\* C6: bitstream layout.  Neither write_byte nor end_transmission panics;
\* while bytes are being written the body is the whole 128-bit blocks of the
\* reference packing of the code bits sent so far, and once end_transmission
\* has returned the body is that packing in full.
C6_Layout ==
    /\ pc \notin {"panic_write_byte", "panic_end_transmission"}
    /\ pc = "enc_write" =>
         Body = SubSeq(SentPacked, 1,
                       (ScratchBits \div 8) * (SentLen \div ScratchBits))
    /\ Encoded => Body = SentPacked

\* C7: trimmed final flush.  end_transmission does not panic, and once it has
\* returned the body holds the code bits sent, divided by 8 and rounded up,
\* bytes; with shift = 0 at the flush that is the flushed blocks and no byte
\* more.
C7_ByteCount ==
    /\ pc # "panic_end_transmission"
    /\ Encoded => Len(Body) = CeilDiv(SentLen, 8)
    /\ (Encoded /\ shift = 0) =>
         Len(Body) = (ScratchBits \div 8) * (SentLen \div ScratchBits)

\* C8: queue ordering.  From the empty queue, every call leaves the sequence
\* sorted descending by key; insert adds its entry and loses none; remove
\* returns None on the empty queue and otherwise takes out an entry with the
\* least key; remove_two returns None when fewer than two entries are held and
\* otherwise takes out the two entries with the least keys, the lower first.
C8_QueueOrder ==
    [][/\ SortedDesc(data')
       /\ pc' = "q_insert" =>
            \E i \in 0 .. Len(data), k \in Keys, v \in Values :
                data' = VecInsert(data, i, <<k, v>>)
       /\ pc' = "q_remove" =>
            IF data = <<>>
            THEN popped' = None /\ data' = <<>>
            ELSE /\ popped'.kind = "Some"
                 /\ popped'.val[1] = MinKey(data)
                 /\ \E i \in DOMAIN data :
                        data[i] = popped'.val /\ data' = Without(data, {i})
       /\ pc' = "q_remove_two" =>
            IF Len(data) < 2
            THEN popped' = None /\ data' = data
            ELSE /\ popped'.kind = "Some"
                 /\ popped'.val[1][1] = MinKey(data)
                 /\ popped'.val[1][1] <= popped'.val[2][1]
                 /\ \E i, j \in DOMAIN data :
                        /\ i # j
                        /\ data[i] = popped'.val[1]
                        /\ data[j] = popped'.val[2]
                        /\ data' = Without(data, {i, j})
                        /\ \A k \in DOMAIN data :
                              k \notin {i, j} => popped'.val[2][1] <= data[k][1]
      ]_vars

\* a remove_two that returned two entries of different keys and left some
C8_Witness ==
    /\ pc = "q_remove_two"
    /\ popped.kind = "Some"
    /\ popped.val[1][1] < popped.val[2][1]
    /\ Len(data) >= 2
    /\ data[1][1] > data[2][1]

\* C9: tree construction.  For a table sorted descending by weight: seeding
\* adds the sentinel with weight 0 to the table's entries; every merge takes
\* the two lowest-weight entries out of the queue, the lower one first, and
\* puts back Branch(first, second) with the sum of their weights; and for the
\* tables with weights 69 > 71 > 70 the tree is
\* Branch(Branch(Branch(EOF, Known(70)), Known(71)), Known(69)).
C9_TreeConstruction ==
    [][SortedDesc(freqs) =>
        /\ (pc = "enc_seed" /\ pc' = "enc_merge") =>
             /\ Len(heap') = Len(freqs) + 1
             /\ \A k \in DOMAIN freqs : heap'[k] = Known(freqs[k][2])
             /\ heap'[Len(freqs) + 1] = EOF
             /\ \E i \in 0 .. Len(freqs) :
                   data' = VecInsert([k \in DOMAIN freqs |-> <<freqs[k][1], k>>],
                                     i, <<0, Len(freqs) + 1>>)
             /\ SortedDesc(data')
        /\ (pc = "enc_merge" /\ pc' = "enc_merge") =>
             LET n == Len(data)
                 a == data[n]
                 b == data[n - 1]
             IN /\ n >= 2
                /\ a[1] <= b[1]
                /\ \A k \in 1 .. (n - 2) : b[1] <= data[k][1]
                /\ heap' = Append(heap, Branch(a[2], b[2]))
                /\ \E i \in 0 .. (n - 2) :
                      data' = VecInsert(SubSeq(data, 1, n - 2), i,
                                        <<a[1] + b[1], Len(heap')>>)
                /\ SortedDesc(data')
        /\ (pc = "enc_merge" /\ pc' = "enc_writer") =>
             /\ Len(data) = 1
             /\ tree' = [root |-> data[1][2], nodes |-> heap]
             /\ freqs \in {TestTable, ScenarioTable} =>
                  Nested(tree'.nodes, tree'.root) =
                      Branch(Branch(Branch(EOF, Known(70)), Known(71)), Known(69))
      ]_vars

\* the scenario's table has been turned into the tree the unit test asserts
C9_Witness ==
    /\ freqs = ScenarioTable
    /\ pc = "enc_writer"
    /\ Nested(tree.nodes, tree.root) =
           Branch(Branch(Branch(EOF, Known(70)), Known(71)), Known(69))
    /\ popped.val[1] = 262

\* C10: table shape.  When count_bytes has succeeded on a source with bytes,
\* the table holds one pair per byte value that occurs, with weight
\* floor(count * 255 / max_count), the most frequent value has weight 255, and
\* the pairs are in descending order of weight, equal weights in increasing
\* order of byte value.
C10_TableShape ==
    (pc = "enc_header" /\ input.bytes # <<>>) =>
        LET occ(b) == Cardinality({i \in DOMAIN input.bytes : input.bytes[i] = b})
            seen == {input.bytes[i] : i \in DOMAIN input.bytes}
            most == CHOOSE m \in {occ(b) : b \in seen} : \A b \in seen : occ(b) <= m
        IN /\ TableBytes = seen
           /\ Len(freqs) = Cardinality(seen)
           /\ \A i \in DOMAIN freqs :
                 /\ freqs[i][1] = (occ(freqs[i][2]) * 255) \div most
                 /\ freqs[i][1] \in 0 .. 255
           /\ \E i \in DOMAIN freqs : freqs[i][1] = 255
           /\ \A i, j \in DOMAIN freqs :
                 i < j => \/ freqs[i][1] > freqs[j][1]
                          \/ (freqs[i][1] = freqs[j][1] /\ freqs[i][2] < freqs[j][2])

\* a counted table with a weight-255 pair followed by two pairs of one weight
C10_Witness ==
    /\ pc = "enc_header"
    /\ Len(freqs) = 3
    /\ freqs[1][1] = 255
    /\ freqs[2][1] = freqs[3][1]
    /\ freqs[2][1] \in 1 .. 254

\* the pair count the 4-byte header announces
Announced == ((out[1] * NumBytes + out[2]) * NumBytes + out[3]) * NumBytes + out[4]

\* C11: header read failures are values.  Frequencies::read on any byte
\* sequence ends with a table or an I/O error, never with a panic, and on a
\* sequence of fewer than 4 bytes, or of fewer than 2 * count bytes after the
\* count, the result is an I/O error.
C11_ReadNeverAborts ==
    /\ pc # "panic_read"
    /\ (pc # "dec_read" /\ (Len(out) < 4 \/ (Len(out) - 4) \div 2 < Announced)) =>
           (pc = "io_error" /\ rfreqs.kind = "IoErr")

SingleByte ==
    /\ GoodSource
    /\ \A i \in DOMAIN input.bytes : input.bytes[i] = input.bytes[1]

\* C13: single-byte alphabet.  For a source of N >= 1 copies of one byte b:
\* the table is [(255, b)], the tree is Branch(EOF, Known(b)), the codes of b
\* and of the sentinel are 1 bit long, nothing panics or fails, and decode
\* ends having written exactly the N copies of b.
C13_SingleByte ==
    SingleByte =>
        LET b == input.bytes[1]
        IN /\ ~Panicked /\ pc # "io_error"
           /\ pc # "enc_count" => freqs = << <<MaxWeight, b>> >>
           /\ tree # NoTree => Nested(tree.nodes, tree.root) = Branch(EOF, Known(b))
           /\ top_tree # NoTree =>
                 Nested(top_tree.nodes, top_tree.root) = Branch(EOF, Known(b))
           /\ (pc = "enc_write" \/ Encoded) => (map[b][2] = 1 /\ eof[2] = 1)
           /\ pc = "done" => decoded = input.bytes

\* a run of one byte long enough to fill the first 128-bit block has been
\* encoded and decoded
C13_Witness ==
    /\ input.bytes = Rep(69, RunMax)
    /\ pc = "done"
    /\ decoded = input.bytes
    /\ Len(Body) = ScratchBits \div 8 + 1

\* C14: accumulator reset at stream end.  Once end_transmission has returned
\* Ok the writer's accumulator is empty: shift is 0 and scratch is 0.
C14_AccumulatorReset ==
    Encoded => (shift = 0 /\ scratch = {})

\* C15: tree construction terminates.  For a table of n pairs the queue
\* holds n + 1 entries when the merge loop starts; every merge allocates one
\* Branch and leaves the queue one entry shorter; the loop ends after exactly
\* n merges with one entry in the queue, and the final remove returns it as
\* the root: unwrap never meets an empty queue.
C15_MergeCount ==
    [][/\ pc' # "panic_from_freqs"
       /\ (pc = "enc_seed" /\ pc' = "enc_merge") =>
            (Len(data') = Len(freqs) + 1 /\ Len(heap') = Len(freqs) + 1)
       /\ (pc = "enc_merge" /\ pc' = "enc_merge") =>
            /\ Len(data') = Len(data) - 1
            /\ Len(heap') = Len(heap) + 1
            /\ Len(heap') - (Len(freqs) + 1) <= Len(freqs)
       /\ (pc = "enc_merge" /\ pc' # "enc_merge") =>
            /\ pc' = "enc_writer"
            /\ Len(data) = 1
            /\ Len(heap) - (Len(freqs) + 1) = Len(freqs)
            /\ tree'.root = data[1][2]
            /\ data' = <<>>
      ]_vars

\* the table of 129 pairs has been merged into its tree of 259 nodes
C15_Witness ==
    /\ freqs = DeepTable
    /\ pc = "enc_writer"
    /\ Len(tree.nodes) = 2 * Len(DeepTable) + 1
    /\ data = <<>>

\* the table is one a Frequencies value is meant to be: sorted descending by
\* weight, one pair per byte value
WellFormed ==
    /\ SortedDesc(freqs)
    /\ \A i, j \in DOMAIN freqs : i # j => freqs[i][2] # freqs[j][2]

\* the code lengths from_tree recorded follow the weights of the table
LengthsFollowWeights ==
    /\ \A i, j \in DOMAIN freqs :
          freqs[i][1] > freqs[j][1] => map[freqs[i][2]][2] <= map[freqs[j][2]][2]
    /\ \A i \in DOMAIN freqs :
          freqs[i][1] > 0 => eof[2] >= map[freqs[i][2]][2]

\* C16 as stated: code lengths follow weights in the code table of any table
\* whatever: a byte of higher weight has a code no longer than a byte of
\* lower weight, and the sentinel's code is at least as long as the code of
\* every byte of nonzero weight.
C16_AnyTable ==
    pc = "enc_write" => LengthsFollowWeights

\* C16 amended: code lengths follow weights in the code table of every table
\* that is sorted descending by weight and holds each byte value once.
C16_CodeLengths ==
    (pc = "enc_write" /\ WellFormed) => LengthsFollowWeights

\* the code table of the scenario's table: 1, 2 and 3 bits for weights 255,
\* 5 and 2, and 3 bits for the sentinel
C16_Witness ==
    /\ pc = "enc_write"
    /\ freqs = ScenarioTable
    /\ map[69][2] = 1 /\ map[71][2] = 2 /\ map[70][2] = 3 /\ eof[2] = 3

\* every code the writer holds, of a byte of the table or of the sentinel, is
\* 1 to 127 bits long
CodesFit ==
    /\ eof[2] \in 1 .. (ScratchBits - 1)
    /\ \A b \in TableBytes : map[b][2] \in 1 .. (ScratchBits - 1)

\* bit n, counted from 0, of the bytes `packed`
BitOf(packed, n) == (packed[n \div 8 + 1] \div Pow2(n % 8)) % 2

\* C17: writer accumulator invariant.  When every code is 1 to 127 bits long,
\* after every write_byte and after the sentinel write of end_transmission:
\* shift is in 0..127, it is the number of code bits sent since the last
\* block was flushed, scratch has no bit at position shift or above, and bit
\* k of scratch is the k-th code bit sent since that flush.
C17_AccumulatorInvariant ==
    ((pc = "enc_write" \/ Encoded) /\ CodesFit) =>
        /\ shift \in 0 .. (ScratchBits - 1)
        /\ shift = SentLen % ScratchBits
        /\ \A k \in scratch : k < shift
        /\ LET sent == SentPacked
               from == SentLen - shift
           IN \A k \in 0 .. (shift - 1) :
                 (k \in scratch) <=> (BitOf(sent, from + k) = 1)
        /\ Len(Body) >= (ScratchBits \div 8) * (SentLen \div ScratchBits)

\* a write_byte has flushed the first block and left bits of its code, a 1
\* among them, in scratch
C17_Witness ==
    /\ pc = "enc_write"
    /\ CodesFit
    /\ Len(Body) = ScratchBits \div 8
    /\ shift \in 1 .. (ScratchBits - 1)
    /\ scratch # {}
    /\ SentLen = ScratchBits + shift

\* C18: deferred emission in feed.  Every feed call of decode, on the file
\* encode wrote for a source that reads well: consumes the 8 bits of its byte
\* unless it meets the sentinel; first writes the symbol a previous call left
\* pending on a Known leaf; leaves pending, unwritten, exactly the symbol whose
\* code ends on its 8th bit; so that what has been written after the call is
\* the symbols whose codes end within the bits fed so far, less the pending
\* one, each once and in the order of the source.
C18_DeferredEmission ==
    [][(pc = "dec_feed" /\ rpos' = rpos + 1 /\ GoodSource) =>
         LET before == top_tree.nodes[cur]
             after == top_tree.nodes[cur']
             src == input.bytes
             fed == 8 * (rpos' - HeaderLen)
             Ends[i \in 0 .. Len(src)] ==
                 IF i = 0 THEN 0 ELSE Ends[i - 1] + map[src[i]][2]
             complete == Cardinality({i \in DOMAIN src : Ends[i] <= fed})
             pending == IF after.kind = "Known" THEN 1 ELSE 0
         IN /\ before.kind = "Known" =>
                 /\ Len(decoded') > Len(decoded)
                 /\ decoded'[Len(decoded) + 1] = before.byte
            /\ decoded' = SubSeq(src, 1, Len(decoded'))
            /\ can_feed' =>
                 /\ Len(decoded') = complete - pending
                 /\ after.kind = "Known" =>
                       (Ends[complete] = fed /\ after.byte = src[complete])
            /\ ~can_feed' => (after = EOF /\ decoded' = src)
      ]_vars

\* a feed call has ended on a Known leaf with its 8 bits consumed: seven
\* symbols written, the eighth pending
C18_Witness ==
    /\ pc = "dec_feed"
    /\ rpos = HeaderLen + 1
    /\ can_feed
    /\ top_tree.nodes[cur].kind = "Known"
    /\ Len(decoded) = 7

\* the source yields no byte and no read error
EmptySource == input.bytes = <<>> /\ ~input.err

\* C19: empty source.  On a source that yields no byte, encode does not
\* panic or fail: count_bytes succeeds with a table of zero pairs, from_freqs
\* returns the lone sentinel leaf, from_tree gives the sentinel the code of
\* length 0, and the file written is the header 00 00 00 00 and no body.
C19_EmptySource ==
    EmptySource =>
        /\ pc \notin {"io_error", "panic_from_freqs", "panic_from_tree",
                      "panic_write_byte", "panic_end_transmission"}
        /\ pc # "enc_count" => freqs = <<>>
        /\ pc = "enc_header" => out = <<>>
        /\ pc \in {"enc_merge"} => (heap = <<EOF>> /\ Len(data) = 1)
        /\ tree # NoTree => tree = [root |-> 1, nodes |-> <<EOF>>]
        /\ (pc = "enc_write" \/ Encoded) => (eof = <<{}, 0>> /\ map = EmptyMap)
        /\ pc \notin {"enc_count", "enc_header"} => out = <<0, 0, 0, 0>>
        /\ Encoded => (Body = <<>> /\ shift = 0 /\ scratch = {})

\* the empty source has been encoded
C19_Witness ==
    /\ EmptySource
    /\ pc = "encoded"
    /\ out = <<0, 0, 0, 0>>
    /\ tree.nodes = <<EOF>>

=============================================================================
